---- MODULE Spec2Model ----
(***************************************************************************)
(* HuePass colour engine: the WCAG contrast mathematics, the lightness     *)
(* search for an accessible alternative, the hex codec, the CVD simulator, *)
(* and the two values persisted in localStorage (palette, CVD mode).       *)
(*                                                                         *)
(* Numbers.  JavaScript numbers are IEEE doubles.  Here a real is either   *)
(* an exact rational <<n, d>> (HSL arithmetic, thresholds) or, where the   *)
(* source calls Math.pow, a fixed-point integer scaled by LumScale: the    *)
(* value of Math.pow((s + 0.055) / 1.055, 2.4) at s = c/255 is tabulated   *)
(* in SRGB_POW for the 256 channel values, and its inverse in SRGB_CUT.    *)
(***************************************************************************)
EXTENDS Integers, Sequences, FiniteSets, TLC

VARIABLES
  pc,              \* "call": the operation in `call` is about to run; "done": it returned
  call,            \* the operation invoked and its arguments
  ret,             \* what the operation returned
  currentCVDMode,  \* color-blindness.ts: let currentCVDMode
  localStorage,    \* the browser's key-value store: key -> <<text>>, or <<>> when absent
  html,            \* document.documentElement: style.filter and the data-cvd-mode attribute
  dispatched       \* CustomEvents dispatched on window, oldest first

vars == <<pc, call, ret, currentCVDMode, localStorage, html, dispatched>>

\* A value that may be absent (null in the source): <<>> or <<v>>.
None == <<>>

\* The element of a one-element set: Only({e(c) : c \in {v}}) is e at the
\* constant c of value v, which is computed once.
Only(S) == CHOOSE x \in S : TRUE
Some(v) == <<v>>

(***************************************************************************)
(* Bounds of the model.                                                    *)
(***************************************************************************)
\* channel values per axis of the colour grid used for contrast pairs
ContrastLevels == 3
\* sampled colours the lightness search is run on, besides the fixed greys
NumSearchColours == 6
\* longest text handed to hexToRgb
MaxTextLen == 7
\* longest JSON text (in tokens) another script writes under the palette key
MaxJsonTokens == 2
\* cvdModeChange events dispatched in a run
MaxEvents == 2
\* colours in a palette handed to savePalette
MaxPaletteLen == 2
\* ratios handed to the grading functions are the multiples of 1 / RatioSteps
\* from 0 to 22, the thresholds and their neighbours
RatioSteps == 4
\* a call of Math.random() returns one of j / RandomSteps, j = 0 .. RandomSteps - 1
RandomSteps == 8

(***************************************************************************)
(* Arithmetic helpers.                                                     *)
(***************************************************************************)
Max(a, b) == IF a >= b THEN a ELSE b
Min(a, b) == IF a <= b THEN a ELSE b
Abs(a) == IF a < 0 THEN -a ELSE a

RECURSIVE GCD(_, _)
GCD(a, b) == IF b = 0 THEN a ELSE GCD(b, a % b)

\* The rational n/d in lowest terms with a positive denominator.
Rat(n, d) ==
  LET s == IF d < 0 THEN -1 ELSE 1
      g == GCD(Abs(n), Abs(d))
  IN  <<(s * n) \div g, (s * d) \div g>>

RatAdd(x, y) ==
  LET g == GCD(x[2], y[2])
  IN  Rat(x[1] * (y[2] \div g) + y[1] * (x[2] \div g), x[2] * (y[2] \div g))

RatNeg(x) == <<-x[1], x[2]>>
RatSub(x, y) == RatAdd(x, RatNeg(y))

\* Cross-cancelled before multiplying, so that the factors stay small.
RatMul(x, y) ==
  LET g1 == GCD(Abs(x[1]), y[2])
      g2 == GCD(Abs(y[1]), x[2])
  IN  Rat((x[1] \div g1) * (y[1] \div g2), (x[2] \div g2) * (y[2] \div g1))

RatDiv(x, y) == RatMul(x, IF y[1] < 0 THEN <<-y[2], -y[1]>> ELSE <<y[2], y[1]>>)
RatLT(x, y) == x[1] * y[2] < y[1] * x[2]
RatLE(x, y) == x[1] * y[2] <= y[1] * x[2]
RatGE(x, y) == RatLE(y, x)
RatGT(x, y) == RatLT(y, x)
RatEQ(x, y) == x[1] * y[2] = y[1] * x[2]
RatMax(x, y) == IF RatGE(x, y) THEN x ELSE y
RatMin(x, y) == IF RatLE(x, y) THEN x ELSE y

\* Math.round: the nearest integer, a tie going up.
MathRound(x) == (2 * x[1] + x[2]) \div (2 * x[2])

\* The nearest integer to n / d, for n >= 0 and d > 0.
RoundDiv(n, d) == (2 * n + d) \div (2 * d)

(***************************************************************************)
(* Fixed point: a real v in [0, 1] is the integer nearest to v * LumScale. *)
(***************************************************************************)
LumScale == 10 ^ 7

\* Math.pow((s + 0.055) / 1.055, 2.4) * LumScale at s = c / 255, c = 0..255
\* (entry c + 1), rounded to the nearest integer.
SRGB_POW ==
  <<8338, 9837, 11482, 13277, 15226, 17333, 19601, 22033,
    24632, 27402, 30345, 33465, 36765, 40247, 43914, 47770,
    51815, 56054, 60488, 65121, 69954, 74990, 80232, 85681,
    91341, 97212, 103298, 109601, 116122, 122865, 129830, 137021,
    144438, 152085, 159963, 168074, 176420, 185002, 193824, 202886,
    212190, 221739, 231534, 241576, 251869, 262412, 273209, 284260,
    295568, 307134, 318960, 331048, 343398, 356013, 368895, 382044,
    395462, 409152, 423114, 437350, 451862, 466651, 481718, 497066,
    512695, 528606, 544803, 561285, 578054, 595112, 612461, 630100,
    648033, 666259, 684782, 703601, 722719, 742136, 761854, 781874,
    802198, 822827, 843762, 865005, 886556, 908417, 930590, 953075,
    975873, 998987, 1022417, 1046165, 1070231, 1094617, 1119324, 1144354,
    1169707, 1195384, 1221388, 1247718, 1274377, 1301365, 1328683, 1356333,
    1384316, 1412633, 1441285, 1470273, 1499598, 1529262, 1559265, 1589608,
    1620294, 1651322, 1682694, 1714411, 1746474, 1778884, 1811642, 1844750,
    1878208, 1912017, 1946178, 1980693, 2015563, 2050787, 2086369, 2122308,
    2158605, 2195262, 2232280, 2269659, 2307400, 2345506, 2383976, 2422811,
    2462013, 2501583, 2541521, 2581829, 2622507, 2663556, 2704978, 2746773,
    2788943, 2831487, 2874408, 2917706, 2961383, 3005438, 3049873, 3094689,
    3139887, 3185468, 3231432, 3277781, 3324515, 3371636, 3419144, 3467041,
    3515326, 3564001, 3613068, 3662526, 3712377, 3762621, 3813260, 3864294,
    3915725, 3967552, 4019778, 4072402, 4125426, 4178851, 4232677, 4286905,
    4341536, 4396572, 4452012, 4507858, 4564110, 4620770, 4677838, 4735315,
    4793202, 4851499, 4910208, 4969330, 5028865, 5088813, 5149177, 5209956,
    5271151, 5332764, 5394795, 5457245, 5520114, 5583404, 5647115, 5711248,
    5775804, 5840784, 5906188, 5972018, 6038273, 6104956, 6172066, 6239604,
    6307571, 6375969, 6444797, 6514056, 6583748, 6653873, 6724432, 6795425,
    6866853, 6938718, 7011019, 7083758, 7156935, 7230551, 7304607, 7379104,
    7454042, 7529422, 7605245, 7681511, 7758222, 7835378, 7912979, 7991027,
    8069523, 8148466, 8227858, 8307699, 8387990, 8468732, 8549926, 8631572,
    8713671, 8796224, 8879231, 8962694, 9046612, 9130987, 9215819, 9301109,
    9386857, 9473065, 9559734, 9646862, 9734453, 9822506, 9911021, 10000000>>


\* The least value * LumScale that linearToSrgb encodes as channel c or more,
\* c = 1..255 (entry c): value <= 0.0031308 ? value * 12.92
\* : 1.055 * Math.pow(value, 1 / 2.4) - 0.055, times 255, clamped, rounded.
SRGB_CUT ==
  <<1518, 4553, 7589, 10624, 13659, 16694, 19730, 22765,
    25800, 28836, 31884, 35093, 38484, 42058, 45819, 49769,
    53911, 58247, 62780, 67513, 72447, 77586, 82931, 88485,
    94250, 100229, 106423, 112835, 119466, 126320, 133398, 140702,
    148234, 155996, 163990, 172218, 180682, 189383, 198325, 207508,
    216934, 226606, 236524, 246692, 257109, 267779, 278703, 289883,
    301320, 313015, 324972, 337190, 349673, 362421, 375436, 388720,
    402274, 416099, 430198, 444572, 459222, 474150, 489357, 504845,
    520616, 536669, 553009, 569634, 586548, 603751, 621244, 639030,
    657110, 675484, 694155, 713123, 732390, 751958, 771827, 791999,
    812475, 833257, 854345, 875742, 897448, 919465, 941794, 964435,
    987391, 1010663, 1034252, 1058159, 1082385, 1106931, 1131799, 1156990,
    1182505, 1208346, 1234512, 1261007, 1287830, 1314983, 1342467, 1370284,
    1398433, 1426917, 1455737, 1484894, 1514388, 1544221, 1574394, 1604909,
    1635765, 1666965, 1698510, 1730400, 1762636, 1795220, 1828153, 1861435,
    1895069, 1929054, 1963392, 1998084, 2033131, 2068534, 2104294, 2140412,
    2176889, 2213726, 2250924, 2288485, 2326408, 2364696, 2403348, 2442367,
    2481753, 2521506, 2561629, 2602122, 2642985, 2684221, 2725829, 2767812,
    2810169, 2852901, 2896011, 2939498, 2983363, 3027608, 3072234, 3117241,
    3162630, 3208402, 3254559, 3301100, 3348028, 3395342, 3443044, 3491135,
    3539615, 3588486, 3637748, 3687403, 3737450, 3787892, 3838728, 3889960,
    3941589, 3993616, 4046041, 4098865, 4152089, 4205714, 4259741, 4314171,
    4369004, 4424242, 4479885, 4535934, 4592390, 4649253, 4706526, 4764208,
    4822300, 4880803, 4939718, 4999046, 5058788, 5118944, 5179515, 5240502,
    5301906, 5363728, 5425968, 5488627, 5551707, 5615207, 5679129, 5743474,
    5808242, 5873434, 5939050, 6005093, 6071562, 6138458, 6205782, 6273534,
    6341717, 6410329, 6479373, 6548849, 6618757, 6689099, 6759874, 6831085,
    6902731, 6974814, 7047334, 7120292, 7193689, 7267525, 7341801, 7416518,
    7491677, 7567279, 7643323, 7719812, 7796745, 7874123, 7951948, 8030220,
    8108939, 8188106, 8267722, 8347789, 8428305, 8509273, 8590693, 8672565,
    8754891, 8837671, 8920906, 9004596, 9088743, 9173346, 9258407, 9343926,
    9429904, 9516342, 9603241, 9690600, 9778422, 9866706, 9955453>>

(***************************************************************************)
(* contrast.ts                                                             *)
(***************************************************************************)
WCAG_THRESHOLDS ==
  [normalTextAAA |-> <<7, 1>>,
   normalTextAA  |-> <<9, 2>>,
   largeTextAAA  |-> <<9, 2>>,
   largeTextAA   |-> <<3, 1>>,
   uiComponents  |-> <<3, 1>>]

RGB(r, g, b) == [r |-> r, g |-> g, b |-> b]

\* The callback of getRelativeLuminance: s = c / 255;
\* s <= 0.03928 ? s / 12.92 : Math.pow((s + 0.055) / 1.055, 2.4).
\* c / 255 / 12.92 = 5c / 16473.
LinearizeWCAG(c) ==
  IF c * 100000 <= 3928 * 255
    THEN RoundDiv(c * 5 * LumScale, 16473)
    ELSE SRGB_POW[c + 1]

\* 0.2126 * R + 0.7152 * G + 0.0722 * B, the weights in units of 1/10000.
getRelativeLuminance(rgb) ==
  LET R == LinearizeWCAG(rgb.r)
      G == LinearizeWCAG(rgb.g)
      B == LinearizeWCAG(rgb.b)
      hi == 2126 * (R \div 10000) + 7152 * (G \div 10000) + 722 * (B \div 10000)
      lo == 2126 * (R % 10000) + 7152 * (G % 10000) + 722 * (B % 10000)
  IN  hi + RoundDiv(lo, 10000)

\* Faulty variant: the two luminances are not ordered.
getContrastRatio_Unordered(color1, color2) ==
  <<getRelativeLuminance(color1) + LumScale \div 20,
    getRelativeLuminance(color2) + LumScale \div 20>>

\* (lighter + 0.05) / (darker + 0.05), as the pair <<numerator, denominator>>.
getContrastRatio(color1, color2) ==
  LET l1 == getRelativeLuminance(color1)
      l2 == getRelativeLuminance(color2)
      lighter == Max(l1, l2)
      darker == Min(l1, l2)
  IN  <<lighter + LumScale \div 20, darker + LumScale \div 20>>


(***************************************************************************)
(* Text is a sequence of one-character strings.                            *)
(***************************************************************************)
HexLower == <<"0", "1", "2", "3", "4", "5", "6", "7", "8", "9", "a", "b", "c", "d", "e", "f">>
HexUpper == <<"0", "1", "2", "3", "4", "5", "6", "7", "8", "9", "A", "B", "C", "D", "E", "F">>
Range(s) == {s[i] : i \in DOMAIN s}

\* [a-f\d] under the i flag.
IsHexDigit(c) == c \in Range(HexLower) \cup Range(HexUpper)

HexValue(c) == CHOOSE v \in 0 .. 15 : HexLower[v + 1] = c \/ HexUpper[v + 1] = c

\* String.prototype.toUpperCase on the characters of hex text.
ToUpperCase(s) ==
  [i \in DOMAIN s |->
     IF \E v \in 0 .. 15 : HexLower[v + 1] = s[i]
       THEN HexUpper[(CHOOSE v \in 0 .. 15 : HexLower[v + 1] = s[i]) + 1]
       ELSE s[i]]

\* hex.replace(/^#/, ''): one leading '#' removed.
StripHash(hex) == IF Len(hex) > 0 /\ hex[1] = "#" THEN Tail(hex) ELSE hex

\* s.split('').map((c) => c + c).join('')
DoubleEach(s) == [i \in 1 .. 2 * Len(s) |-> s[(i + 1) \div 2]]

\* parseInt(s, 16) of a text of two hex digits.
parseHexPair(s) == 16 * HexValue(s[1]) + HexValue(s[2])

\* Faulty variant: the 3-digit shorthand is not expanded.
hexToRgb_NoShorthand(hex) ==
  LET fullHex == StripHash(hex)
  IN  IF Len(fullHex) # 6 THEN None
      ELSE IF \E i \in 1 .. 6 : ~IsHexDigit(fullHex[i]) THEN None
      ELSE Some(RGB(parseHexPair(SubSeq(fullHex, 1, 2)),
                    parseHexPair(SubSeq(fullHex, 3, 4)),
                    parseHexPair(SubSeq(fullHex, 5, 6))))

hexToRgb(hex) ==
  LET sanitized == StripHash(hex)
      fullHex == IF Len(sanitized) = 3 THEN DoubleEach(sanitized) ELSE sanitized
  IN  IF Len(fullHex) # 6 THEN None
      ELSE IF \E i \in 1 .. 6 : ~IsHexDigit(fullHex[i]) THEN None
      ELSE Some(RGB(parseHexPair(SubSeq(fullHex, 1, 2)),
                    parseHexPair(SubSeq(fullHex, 3, 4)),
                    parseHexPair(SubSeq(fullHex, 5, 6))))

RECURSIVE hexDigits(_)
hexDigits(n) ==
  IF n < 16 THEN <<HexLower[n + 1]>>
  ELSE Append(hexDigits(n \div 16), HexLower[(n % 16) + 1])

\* Number.prototype.toString(16) of an integer.
toString16(n) == IF n < 0 THEN <<"-">> \o hexDigits(-n) ELSE hexDigits(n)

\* padStart(2, '0')
padStart2(s) == IF Len(s) < 2 THEN <<"0">> \o s ELSE s

\* Faulty variant: no padStart.
toHex_NoPad(n) == toString16(Max(0, Min(255, MathRound(n))))

\* Faulty variant: the channel is not clamped.
toHex_NoClamp(n) == padStart2(toString16(MathRound(n)))

\* The closure toHex of rgbToHex; n is a rational.
toHex(n) ==
  LET clamped == Max(0, Min(255, MathRound(n)))
  IN  padStart2(toString16(clamped))

\* The channels of rgb are rationals here: rgbToHex rounds them.
rgbToHex(rgb) == <<"#">> \o toHex(rgb.r) \o toHex(rgb.g) \o toHex(rgb.b)

\* An RGB of integer channels as an RGB of rationals.
Numeric(rgb) == RGB(<<rgb.r, 1>>, <<rgb.g, 1>>, <<rgb.b, 1>>)

\* /^#?([A-Fa-f0-9]{6}|[A-Fa-f0-9]{3})$/.test(hex)
isValidHex(hex) ==
  LET body == StripHash(hex)
  IN  /\ Len(body) \in {3, 6}
      /\ \A i \in DOMAIN body : IsHexDigit(body[i])

normalizeHex(hex) ==
  LET sanitized == ToUpperCase(StripHash(hex))
  IN  <<"#">> \o (IF Len(sanitized) = 3 THEN DoubleEach(sanitized) ELSE sanitized)

HSL(h, s, l) == [h |-> h, s |-> s, l |-> l]

\* Hue in degrees, saturation and lightness in percent, each an exact rational.
rgbToHsl(rgb) ==
  LET r == Rat(rgb.r, 255)
      g == Rat(rgb.g, 255)
      b == Rat(rgb.b, 255)
      max == RatMax(r, RatMax(g, b))
      min == RatMin(r, RatMin(g, b))
      l == RatDiv(RatAdd(max, min), <<2, 1>>)
      d == RatSub(max, min)
      s == IF max = min THEN <<0, 1>>
           ELSE IF RatGT(l, <<1, 2>>)
             THEN RatDiv(d, RatSub(RatSub(<<2, 1>>, max), min))
             ELSE RatDiv(d, RatAdd(max, min))
      h == IF max = min THEN <<0, 1>>
           ELSE IF max = r
             THEN RatDiv(RatAdd(RatDiv(RatSub(g, b), d),
                                IF RatLT(g, b) THEN <<6, 1>> ELSE <<0, 1>>), <<6, 1>>)
           ELSE IF max = g
             THEN RatDiv(RatAdd(RatDiv(RatSub(b, r), d), <<2, 1>>), <<6, 1>>)
             ELSE RatDiv(RatAdd(RatDiv(RatSub(r, g), d), <<4, 1>>), <<6, 1>>)
  IN  HSL(RatMul(h, <<360, 1>>), RatMul(s, <<100, 1>>), RatMul(l, <<100, 1>>))

hue2rgb(p, q, t0) ==
  LET t1 == IF RatLT(t0, <<0, 1>>) THEN RatAdd(t0, <<1, 1>>) ELSE t0
      t == IF RatGT(t1, <<1, 1>>) THEN RatSub(t1, <<1, 1>>) ELSE t1
  IN  IF RatLT(t, <<1, 6>>)
        THEN RatAdd(p, RatMul(RatMul(RatSub(q, p), <<6, 1>>), t))
      ELSE IF RatLT(t, <<1, 2>>)
        THEN q
      ELSE IF RatLT(t, <<2, 3>>)
        THEN RatAdd(p, RatMul(RatMul(RatSub(q, p), RatSub(<<2, 3>>, t)), <<6, 1>>))
        ELSE p

hslToRgb(hsl) ==
  LET h == RatDiv(hsl.h, <<360, 1>>)
      s == RatDiv(hsl.s, <<100, 1>>)
      l == RatDiv(hsl.l, <<100, 1>>)
      q == IF RatLT(l, <<1, 2>>)
             THEN RatMul(l, RatAdd(<<1, 1>>, s))
             ELSE RatSub(RatAdd(l, s), RatMul(l, s))
      p == RatSub(RatMul(<<2, 1>>, l), q)
      c255 == <<255, 1>>
  IN  IF s[1] = 0
        THEN LET v == MathRound(RatMul(l, c255)) IN RGB(v, v, v)
        ELSE RGB(MathRound(RatMul(hue2rgb(p, q, RatAdd(h, <<1, 3>>)), c255)),
                 MathRound(RatMul(hue2rgb(p, q, h), c255)),
                 MathRound(RatMul(hue2rgb(p, q, RatSub(h, <<1, 3>>)), c255)))

\* Faulty variant: the ratio is compared with the large-text threshold, not the target.
tryLightness_FixedThreshold(hsl, referenceColor, targetRatio, targetL) ==
  Only({IF RatGE(getContrastRatio(testRgb, referenceColor), WCAG_THRESHOLDS.largeTextAA)
          THEN Some(testRgb) ELSE None :
        testRgb \in {hslToRgb([hsl EXCEPT
                                 !.l = RatMax(<<0, 1>>, RatMin(<<100, 1>>, targetL))])}})

\* The closure tryLightness of findPassingColor: the colour testRgb at
\* lightness targetL (clamped to 0..100) when its contrast against the
\* reference meets the target, null otherwise.
tryLightness(hsl, referenceColor, targetRatio, targetL) ==
  Only({IF RatGE(getContrastRatio(testRgb, referenceColor), targetRatio)
          THEN Some(testRgb) ELSE None :
        testRgb \in {hslToRgb([hsl EXCEPT
                                 !.l = RatMax(<<0, 1>>, RatMin(<<100, 1>>, targetL))])}})

\* The lightness a for loop of findPassingColor tries at step i: up is TRUE
\* when the loop adds i to the lightness, FALSE when it subtracts.
stepLightness(hsl, up, i) ==
  IF up THEN RatMin(<<100, 1>>, RatAdd(hsl.l, <<i, 1>>))
        ELSE RatMax(<<0, 1>>, RatSub(hsl.l, <<i, 1>>))

\* Faulty variant: the loop returns the last step that passes, not the first.
scanLightness_LastPassing(hsl, referenceColor, targetRatio, up) ==
  Only({IF \A i \in 0 .. 100 : result[i] = None THEN None
        ELSE result[CHOOSE i \in 0 .. 100 :
                      result[i] # None /\ \A j \in i + 1 .. 100 : result[j] = None] :
        result \in {[i \in 0 .. 100 |->
                       tryLightness(hsl, referenceColor, targetRatio,
                                    stepLightness(hsl, up, i))]}})

\* One of the two for loops of findPassingColor: result[i] is what
\* tryLightness returns at step i, and the loop returns the first of
\* result[0], .., result[100] that is a colour, null when none is.
scanLightness(hsl, referenceColor, targetRatio, up) ==
  Only({IF \A i \in 0 .. 100 : result[i] = None THEN None
        ELSE result[CHOOSE i \in 0 .. 100 :
                      result[i] # None /\ \A j \in 0 .. i - 1 : result[j] = None] :
        result \in {[i \in 0 .. 100 |->
                       tryLightness(hsl, referenceColor, targetRatio,
                                    stepLightness(hsl, up, i))]}})

\* Faulty variant: the opposite direction is never scanned.
findPassingColor_PrimaryOnly(colorToAdjust, referenceColor, targetRatio) ==
  Only({scanLightness(hsl, referenceColor, targetRatio, goLighter) :
        hsl \in {rgbToHsl(colorToAdjust)},
        goLighter \in {getRelativeLuminance(referenceColor) * 2 < LumScale}})

\* scan[up] is the loop in direction up; the primary direction is goLighter
\* and the opposite one runs only when the primary returned null.
findPassingColor(colorToAdjust, referenceColor, targetRatio) ==
  Only({IF scan[goLighter] # None THEN scan[goLighter] ELSE scan[~goLighter] :
        goLighter \in {getRelativeLuminance(referenceColor) * 2 < LumScale},
        scan \in {[up \in BOOLEAN |->
                     scanLightness(rgbToHsl(colorToAdjust), referenceColor,
                                   targetRatio, up)]}})

\* The swatches of generateAccessiblePair, dark then light.
backgrounds ==
  <<<<"#", "0", "a", "0", "a", "0", "b">>, <<"#", "1", "1", "1", "1", "1", "3">>,
    <<"#", "1", "8", "1", "8", "1", "b">>, <<"#", "1", "f", "1", "f", "2", "3">>,
    <<"#", "f", "a", "f", "a", "f", "a">>, <<"#", "f", "4", "f", "4", "f", "5">>,
    <<"#", "e", "4", "e", "4", "e", "7">>, <<"#", "f", "f", "f", "f", "f", "f">>>>

\* Math.floor(Math.random() * n), the value of Math.random() being u.
randomBelow(u, n) == (u[1] * n) \div u[2]

\* The foreground generateAccessiblePair draws before it ensures AA; u2, u3
\* and u4 are the values of its second to fourth call of Math.random().
randomForeground(bgRgb, u2, u3, u4) ==
  LET hue == randomBelow(u2, 360)
      saturation == 50 + randomBelow(u3, 40)
      bgLuminance == getRelativeLuminance(bgRgb)
      targetLightness == IF bgLuminance * 2 < LumScale
                           THEN 70 + randomBelow(u4, 25)
                           ELSE 15 + randomBelow(u4, 30)
  IN  hslToRgb(HSL(<<hue, 1>>, <<saturation, 1>>, <<targetLightness, 1>>))

\* Faulty variant: the foreground drawn is returned as it is.
generateAccessiblePair_NoEnsure(u1, u2, u3, u4) ==
  Only({[foreground |-> rgbToHex(Numeric(randomForeground(bgRgb, u2, u3, u4))),
         background |-> background] :
        background \in {backgrounds[randomBelow(u1, Len(backgrounds)) + 1]},
        bgRgb \in {hexToRgb(backgrounds[randomBelow(u1, Len(backgrounds)) + 1])[1]}})

\* u1..u4 are the values of the four calls of Math.random().  passing is the
\* result of findPassingColor when the colour drawn is below AA, and null
\* when the search is not run or returns null.
generateAccessiblePair(u1, u2, u3, u4) ==
  Only({LET passing == IF RatLT(getContrastRatio(picked, bgRgb),
                                WCAG_THRESHOLDS.normalTextAA)
                         THEN findPassingColor(picked, bgRgb, WCAG_THRESHOLDS.normalTextAA)
                         ELSE None
        IN  [foreground |-> rgbToHex(Numeric(IF passing # None THEN passing[1]
                                                                ELSE picked)),
             background |-> background] :
        background \in {backgrounds[randomBelow(u1, Len(backgrounds)) + 1]},
        bgRgb \in {hexToRgb(backgrounds[randomBelow(u1, Len(backgrounds)) + 1])[1]},
        picked \in {randomForeground(
                      hexToRgb(backgrounds[randomBelow(u1, Len(backgrounds)) + 1])[1],
                      u2, u3, u4)}})

(***************************************************************************)
(* color-blindness.ts.  A number that may be NaN is [nan, v].              *)
(***************************************************************************)
Num(v) == [nan |-> FALSE, v |-> v]
NaN == [nan |-> TRUE, v |-> 0]

CVD_TYPES == <<"protanopia", "deuteranopia", "tritanopia", "achromatopsia">>
CVDType == Range(CVD_TYPES) \cup {"none"}

\* The entries in units of 1/1000.
CVD_MATRICES ==
  [protanopia   |-> <<<<567, 433, 0>>, <<558, 442, 0>>, <<0, 242, 758>>>>,
   deuteranopia |-> <<<<625, 375, 0>>, <<700, 300, 0>>, <<0, 300, 700>>>>,
   tritanopia   |-> <<<<950, 50, 0>>, <<0, 433, 567>>, <<0, 475, 525>>>>]

\* In units of 1/10000.
GRAYSCALE_WEIGHTS == <<2126, 7152, 722>>

\* v = value / 255; v <= 0.04045 ? v / 12.92 : Math.pow((v + 0.055) / 1.055, 2.4)
srgbToLinear(value) ==
  IF value.nan THEN NaN
  ELSE IF value.v * 100000 <= 4045 * 255
    THEN Num(RoundDiv(value.v * 5 * LumScale, 16473))
    ELSE Num(SRGB_POW[value.v + 1])

\* Math.round(Math.max(0, Math.min(255, v * 255))) for v = value <= 0.0031308
\* ? value * 12.92 : 1.055 * Math.pow(value, 1 / 2.4) - 0.055: the number
\* of channel values c = 1..255 whose cut SRGB_CUT[c] the value reaches.
linearToSrgb(value) ==
  IF value.nan THEN NaN
  ELSE Num(Cardinality({c \in 1 .. 255 : value.v >= SRGB_CUT[c]}))

\* w[1] * x[1] + w[2] * x[2] + w[3] * x[3] for weights in units of 1/unit;
\* NaN when a term is NaN (NaN * 0 is NaN).
weightedSum(x, w, unit) ==
  IF \E i \in 1 .. 3 : x[i].nan THEN NaN
  ELSE Num(w[1] * (x[1].v \div unit) + w[2] * (x[2].v \div unit) + w[3] * (x[3].v \div unit)
           + RoundDiv(w[1] * (x[1].v % unit) + w[2] * (x[2].v % unit) + w[3] * (x[3].v % unit),
                      unit))

applyMatrix(rgb, matrix) ==
  <<weightedSum(rgb, matrix[1], 1000),
    weightedSum(rgb, matrix[2], 1000),
    weightedSum(rgb, matrix[3], 1000)>>

\* hex.replace('#', ''): the first '#' removed, wherever it stands.
RemoveFirstHash(hex) ==
  IF \E i \in DOMAIN hex : hex[i] = "#"
    THEN LET k == CHOOSE i \in DOMAIN hex : hex[i] = "#" /\ \A j \in 1 .. i - 1 : hex[j] # "#"
         IN  SubSeq(hex, 1, k - 1) \o SubSeq(hex, k + 1, Len(hex))
    ELSE hex

\* s.substring(from, to)
substring(s, from, to) == SubSeq(s, Min(from, Len(s)) + 1, Min(to, Len(s)))

RECURSIVE hexPrefixValue(_, _)
hexPrefixValue(s, acc) ==
  IF s = <<>> \/ ~IsHexDigit(Head(s)) THEN acc
  ELSE hexPrefixValue(Tail(s), 16 * acc + HexValue(Head(s)))

\* parseInt(s, 16): the value of the leading hex digits, NaN when there are none.
parseInt16(s) ==
  IF s = <<>> \/ ~IsHexDigit(Head(s)) THEN NaN ELSE Num(hexPrefixValue(s, 0))

\* n.toString(16).padStart(2, '0')
numberToHex(n) == IF n.nan THEN <<"N", "a", "N">> ELSE padStart2(toString16(n.v))

simulateCVD(hex, cvdType) ==
  IF cvdType = "none" THEN hex
  ELSE
    LET cleanHex == RemoveFirstHash(hex)
        r == parseInt16(substring(cleanHex, 0, 2))
        g == parseInt16(substring(cleanHex, 2, 4))
        b == parseInt16(substring(cleanHex, 4, 6))
        linearRgb == <<srgbToLinear(r), srgbToLinear(g), srgbToLinear(b)>>
        gray == weightedSum(linearRgb, GRAYSCALE_WEIGHTS, 10000)
        simulatedLinear == IF cvdType = "achromatopsia" THEN <<gray, gray, gray>>
                           ELSE applyMatrix(linearRgb, CVD_MATRICES[cvdType])
        newR == linearToSrgb(simulatedLinear[1])
        newG == linearToSrgb(simulatedLinear[2])
        newB == linearToSrgb(simulatedLinear[3])
    IN  ToUpperCase(<<"#">> \o numberToHex(newR) \o numberToHex(newG) \o numberToHex(newB))

CVD_STORAGE_KEY == "huepass-cvd-mode"

getCVDFilterId(cvdType) == <<"cvd-filter-", cvdType>>

(***************************************************************************)
(* palette.ts: the palette in localStorage.                                *)
(*                                                                         *)
(* A JSON text is the sequence of its tokens, each <<kind, characters>>:   *)
(* punctuation "p", a string literal "str", a number "num", one of the     *)
(* literals null, true, false "lit".  A JavaScript value is [t, v] with t  *)
(* its type.                                                               *)
(***************************************************************************)
STORAGE_KEY == "huepass-palette"

P(c) == <<"p", <<c>>>>
Str(s) == <<"str", s>>

JArr(items) == [t |-> "array", v |-> items]
JObj(members) == [t |-> "object", v |-> members]
JStr(s) == [t |-> "string", v |-> s]
JNum(s) == [t |-> "number", v |-> s]
JLit(s) == [t |-> "literal", v |-> s]

Parsed(v, rest) == [ok |-> TRUE, v |-> v, rest |-> rest]
SyntaxError == [ok |-> FALSE, v |-> JLit(<<>>), rest |-> <<>>]

RECURSIVE parseValue(_), parseElements(_, _), parseMembers(_, _)

\* The value at the head of the tokens and the tokens left.
parseValue(toks) ==
  IF toks = <<>> THEN SyntaxError
  ELSE LET tok == Head(toks)
       IN  IF tok[1] = "num" THEN Parsed(JNum(tok[2]), Tail(toks))
           ELSE IF tok[1] = "str" THEN Parsed(JStr(tok[2]), Tail(toks))
           ELSE IF tok[1] = "lit" THEN Parsed(JLit(tok[2]), Tail(toks))
           ELSE IF tok = P("[")
             THEN IF Len(toks) >= 2 /\ toks[2] = P("]")
                    THEN Parsed(JArr(<<>>), Tail(Tail(toks)))
                    ELSE parseElements(Tail(toks), <<>>)
           ELSE IF tok = P("{")
             THEN IF Len(toks) >= 2 /\ toks[2] = P("}")
                    THEN Parsed(JObj(<<>>), Tail(Tail(toks)))
                    ELSE parseMembers(Tail(toks), <<>>)
           ELSE SyntaxError

\* value (',' value)* ']'
parseElements(toks, acc) ==
  LET e == parseValue(toks)
  IN  IF ~e.ok \/ e.rest = <<>> THEN SyntaxError
      ELSE IF Head(e.rest) = P(",") THEN parseElements(Tail(e.rest), Append(acc, e.v))
      ELSE IF Head(e.rest) = P("]") THEN Parsed(JArr(Append(acc, e.v)), Tail(e.rest))
      ELSE SyntaxError

\* string ':' value (',' string ':' value)* '}'
parseMembers(toks, acc) ==
  IF Len(toks) < 2 \/ toks[1][1] # "str" \/ toks[2] # P(":") THEN SyntaxError
  ELSE LET m == parseValue(Tail(Tail(toks)))
           members == Append(acc, [key |-> toks[1][2], value |-> m.v])
       IN  IF ~m.ok \/ m.rest = <<>> THEN SyntaxError
           ELSE IF Head(m.rest) = P(",") THEN parseMembers(Tail(m.rest), members)
           ELSE IF Head(m.rest) = P("}") THEN Parsed(JObj(members), Tail(m.rest))
           ELSE SyntaxError

\* JSON.parse(text): the value, or SyntaxError when the text is no JSON value.
JSONParse(text) ==
  LET r == parseValue(text)
  IN  IF r.ok /\ r.rest = <<>> THEN r ELSE SyntaxError

\* s[1] \o sep \o s[2] \o .. for a sequence s of token sequences
RECURSIVE JoinTokens(_, _)
JoinTokens(s, sep) ==
  IF s = <<>> THEN <<>>
  ELSE IF Len(s) = 1 THEN s[1]
  ELSE s[1] \o <<sep>> \o JoinTokens(Tail(s), sep)

\* JSON.stringify of a PaletteColor.
stringifyColor(c) ==
  <<P("{"), Str(<<"i", "d">>), P(":"), Str(c.id), P(","),
    Str(<<"n", "a", "m", "e">>), P(":"), Str(c.name), P(","),
    Str(<<"h", "e", "x">>), P(":"), Str(c.hex), P("}")>>

\* JSON.stringify(colors) of a PaletteColor[].
JSONStringify(colors) ==
  <<P("[")>> \o JoinTokens([i \in DOMAIN colors |-> stringifyColor(colors[i])], P(",")) \o <<P("]")>>

\* The PaletteColor[] colors as loadPalette returns it.
PaletteValue(colors) ==
  JArr([i \in DOMAIN colors |->
          JObj(<<[key |-> <<"i", "d">>, value |-> JStr(colors[i].id)],
                 [key |-> <<"n", "a", "m", "e">>, value |-> JStr(colors[i].name)],
                 [key |-> <<"h", "e", "x">>, value |-> JStr(colors[i].hex)]>>)])

\* What loadPalette returns.
loadPalette(storage) ==
  LET stored == storage[STORAGE_KEY]
  IN  IF stored = None \/ stored[1] = <<>> THEN JArr(<<>>)
      ELSE LET parsed == JSONParse(stored[1])
           IN  IF parsed.ok THEN parsed.v ELSE JArr(<<>>)

(***************************************************************************)
(* palette.ts: the exporters.  An exported text is the sequence of its     *)
(* lines (the code joins them with '\n'); a line is a record whose field   *)
(* line is the template literal of the code and whose other fields are the *)
(* values substituted into it.                                             *)
(***************************************************************************)
LowerLetters ==
  <<"a", "b", "c", "d", "e", "f", "g", "h", "i", "j", "k", "l", "m",
    "n", "o", "p", "q", "r", "s", "t", "u", "v", "w", "x", "y", "z">>
UpperLetters ==
  <<"A", "B", "C", "D", "E", "F", "G", "H", "I", "J", "K", "L", "M",
    "N", "O", "P", "Q", "R", "S", "T", "U", "V", "W", "X", "Y", "Z">>
Digits == <<"0", "1", "2", "3", "4", "5", "6", "7", "8", "9">>

IndexOf(c, s) == CHOOSE i \in DOMAIN s : s[i] = c

charToLowerCase(c) ==
  IF c \in Range(UpperLetters) THEN LowerLetters[IndexOf(c, UpperLetters)] ELSE c
charToUpperCase(c) ==
  IF c \in Range(LowerLetters) THEN UpperLetters[IndexOf(c, LowerLetters)] ELSE c

\* String.prototype.toLowerCase
toLowerCase(s) == [i \in DOMAIN s |-> charToLowerCase(s[i])]

\* [a-z0-9] and [a-zA-Z0-9]
IsLowerAlnum(c) == c \in Range(LowerLetters) \cup Range(Digits)
IsAlnum(c) == c \in Range(LowerLetters) \cup Range(UpperLetters) \cup Range(Digits)

\* s.replace(/[^a-z0-9]+/g, sep): every maximal run of other characters
\* becomes one sep.
RECURSIVE collapseRuns(_, _)
collapseRuns(s, sep) ==
  IF s = <<>> THEN <<>>
  ELSE IF IsLowerAlnum(Head(s)) THEN <<Head(s)>> \o collapseRuns(Tail(s), sep)
  ELSE IF Len(s) >= 2 /\ ~IsLowerAlnum(s[2]) THEN collapseRuns(Tail(s), sep)
  ELSE <<sep>> \o collapseRuns(Tail(s), sep)

\* s.replace(/^-|-$/g, '') and s.replace(/^_|_$/g, ''): one leading and one
\* trailing sep removed.
stripEnds(s, sep) ==
  LET t == IF s # <<>> /\ Head(s) = sep THEN Tail(s) ELSE s
  IN  IF t # <<>> /\ t[Len(t)] = sep THEN SubSeq(t, 1, Len(t) - 1) ELSE t

\* color.name.toLowerCase().replace(/[^a-z0-9]+/g, sep).replace(/^sep|sep$/g, '')
sanitizeKey(name, sep) == stripEnds(collapseRuns(toLowerCase(name), sep), sep)

\* The length of the longest prefix of s without a letter or a digit.
RECURSIVE runLength(_)
runLength(s) == IF s = <<>> \/ IsAlnum(Head(s)) THEN 0 ELSE 1 + runLength(Tail(s))

\* s.replace(/[^a-zA-Z0-9]+(.)/g, (_, chr) => chr.toUpperCase()): a run and
\* the character after it become that character in upper case; a run that
\* reaches the end gives its last character up to the group, and a single
\* such character at the end is no match.
RECURSIVE camelJoin(_)
camelJoin(s) ==
  IF s = <<>> THEN <<>>
  ELSE IF IsAlnum(Head(s)) THEN <<Head(s)>> \o camelJoin(Tail(s))
  ELSE LET run == runLength(s)
       IN  IF run < Len(s)
             THEN <<charToUpperCase(s[run + 1])>> \o camelJoin(SubSeq(s, run + 2, Len(s)))
           ELSE IF run >= 2 THEN <<charToUpperCase(s[run])>>
           ELSE s

\* s.replace(/[^a-zA-Z0-9]/g, '')
dropNonAlnum(s) == SelectSeq(s, IsAlnum)

\* s.replace(/^./, (chr) => chr.toLowerCase())
lowerFirst(s) == IF s = <<>> THEN s ELSE <<charToLowerCase(Head(s))>> \o Tail(s)

\* The propertyName of exportAsSwift.
propertyName(name) == lowerFirst(dropNonAlnum(camelJoin(name)))

\* Faulty variant: two decimals only.
channelToFixed3_TwoDecimals(c) ==
  IF c.nan THEN <<"N", "a", "N">>
  ELSE LET m == RoundDiv(100 * c.v, 255)
       IN  <<Digits[(m \div 100) + 1], ".", Digits[((m \div 10) % 10) + 1],
             Digits[(m % 10) + 1], "0">>

\* (c / 255).toFixed(3) for the result c of parseInt: 'NaN' for NaN, else
\* the nearest multiple of 0.001 (c / 255 is never half way between two).
channelToFixed3(c) ==
  IF c.nan THEN <<"N", "a", "N">>
  ELSE LET m == RoundDiv(1000 * c.v, 255)
       IN  <<Digits[(m \div 1000) + 1], ".", Digits[((m \div 100) % 10) + 1],
             Digits[((m \div 10) % 10) + 1], Digits[(m % 10) + 1]>>

\* An array index as a property key: '0', or digits without a leading zero.
IsArrayIndex(key) ==
  /\ key # <<>>
  /\ Len(key) <= 9
  /\ \A i \in DOMAIN key : key[i] \in Range(Digits)
  /\ (Len(key) = 1 \/ Head(key) # "0")

RECURSIVE decimalValue(_, _)
decimalValue(s, acc) ==
  IF s = <<>> THEN acc ELSE decimalValue(Tail(s), 10 * acc + IndexOf(Head(s), Digits) - 1)

\* obj[key] = value on an object held as the sequence of its properties in
\* enumeration order: an own key keeps its place and takes the value; a new
\* array-index key goes among the index keys, in ascending order, which
\* come first; any other new key goes last.
setProperty(obj, key, value) ==
  IF \E i \in DOMAIN obj : obj[i].key = key
    THEN [i \in DOMAIN obj |-> IF obj[i].key = key THEN [key |-> key, value |-> value]
                                                   ELSE obj[i]]
  ELSE IF IsArrayIndex(key)
    THEN LET k == Cardinality({i \in DOMAIN obj :
                                 /\ IsArrayIndex(obj[i].key)
                                 /\ decimalValue(obj[i].key, 0) < decimalValue(key, 0)})
         IN  SubSeq(obj, 1, k) \o <<[key |-> key, value |-> value]>>
               \o SubSeq(obj, k + 1, Len(obj))
  ELSE Append(obj, [key |-> key, value |-> value])

\* The object after the loop `for (const color of colors) obj[key] = value`,
\* with the keys made with separator sep.
RECURSIVE assignColors(_, _, _)
assignColors(obj, colors, sep) ==
  IF colors = <<>> THEN obj
  ELSE assignColors(setProperty(obj, sanitizeKey(Head(colors).name, sep), Head(colors)),
                    Tail(colors), sep)

exportAsCSS(colors) ==
  <<[line |-> ":root {"]>>
  \o [i \in DOMAIN colors |->
        [line |-> "  --color-${varName}: ${color.hex};",
         varName |-> sanitizeKey(colors[i].name, "-"), hex |-> colors[i].hex]]
  \o <<[line |-> "}"]>>

\* JSON.stringify({ colors: palette }, null, 2)
exportAsJSON(colors) ==
  LET palette == assignColors(<<>>, colors, "_")
  IN  <<[line |-> "{"]>>
      \o (IF palette = <<>> THEN <<[line |-> "  \"colors\": {}"]>>
          ELSE <<[line |-> "  \"colors\": {"]>>
               \o [i \in DOMAIN palette |->
                     [line |-> "    \"${key}\": \"${color.hex}\"",
                      key |-> palette[i].key, hex |-> palette[i].value.hex,
                      comma |-> i < Len(palette)]]
               \o <<[line |-> "  }"]>>)
      \o <<[line |-> "}"]>>

exportAsTailwind(colors) ==
  <<[line |-> "module.exports = {"], [line |-> "  theme: {"],
    [line |-> "    extend: {"], [line |-> "      colors: {"]>>
  \o [i \in DOMAIN colors |->
        [line |-> "        '${key}': '${color.hex}',",
         key |-> sanitizeKey(colors[i].name, "-"), hex |-> colors[i].hex]]
  \o <<[line |-> "      },"], [line |-> "    },"], [line |-> "  },"], [line |-> "};"]>>

exportAsSCSS(colors) ==
  [i \in DOMAIN colors |->
     [line |-> "$color-${varName}: ${color.hex};",
      varName |-> sanitizeKey(colors[i].name, "-"), hex |-> colors[i].hex]]
  \o <<[line |-> ""], [line |-> "$colors: ("]>>
  \o [i \in DOMAIN colors |->
        [line |-> "  '${key}': ${color.hex},",
         key |-> sanitizeKey(colors[i].name, "-"), hex |-> colors[i].hex]]
  \o <<[line |-> ");"]>>

\* The five lines JSON.stringify prints for one property of tokens.color.
tokenLines(key, color, last) ==
  <<[line |-> "    \"${key}\": {", key |-> key],
    [line |-> "      \"$type\": \"color\","],
    [line |-> "      \"$value\": \"${color.hex}\",", hex |-> color.hex],
    [line |-> "      \"$description\": \"${color.name}\"", name |-> color.name],
    [line |-> "    }", comma |-> ~last]>>

RECURSIVE concatLines(_)
concatLines(s) == IF s = <<>> THEN <<>> ELSE Head(s) \o concatLines(Tail(s))

\* JSON.stringify(tokens, null, 2)
exportAsDesignTokens(colors) ==
  LET color == assignColors(<<>>, colors, "-")
  IN  <<[line |-> "{"]>>
      \o (IF color = <<>> THEN <<[line |-> "  \"color\": {}"]>>
          ELSE <<[line |-> "  \"color\": {"]>>
               \o concatLines([i \in DOMAIN color |->
                                 tokenLines(color[i].key, color[i].value, i = Len(color))])
               \o <<[line |-> "  }"]>>)
      \o <<[line |-> "}"]>>

exportAsSwift(colors) ==
  <<[line |-> "import UIKit"], [line |-> ""], [line |-> "extension UIColor {"],
    [line |-> "    struct Palette {"]>>
  \o [i \in DOMAIN colors |->
        LET hex == RemoveFirstHash(colors[i].hex)
            r == parseInt16(substring(hex, 0, 2))
            g == parseInt16(substring(hex, 2, 4))
            b == parseInt16(substring(hex, 4, 6))
        IN  [line |-> "        static let ${propertyName} = UIColor(red: ${r}, green: ${g}, blue: ${b}, alpha: 1.0)",
             propertyName |-> propertyName(colors[i].name),
             red |-> channelToFixed3(r), green |-> channelToFixed3(g),
             blue |-> channelToFixed3(b)]]
  \o <<[line |-> "    }"], [line |-> "}"]>>

exportAsAndroidXML(colors) ==
  <<[line |-> "<?xml version=\"1.0\" encoding=\"utf-8\"?>"], [line |-> "<resources>"]>>
  \o [i \in DOMAIN colors |->
        [line |-> "    <color name=\"${name}\">${color.hex}</color>",
         name |-> sanitizeKey(colors[i].name, "_"), hex |-> colors[i].hex]]
  \o <<[line |-> "</resources>"]>>

(***************************************************************************)
(* contrast.ts: grading a ratio.  A ratio is <<n, d>> for n / d with       *)
(* d > 0, and NaN is <<0, 0>>.                                             *)
(***************************************************************************)
NaNRatio == <<0, 0>>

\* x >= y on numbers: false when x is NaN.
numberGE(x, y) == x # NaNRatio /\ RatGE(x, y)

RECURSIVE decimalDigits(_)
decimalDigits(n) ==
  IF n < 10 THEN <<Digits[n + 1]>>
  ELSE Append(decimalDigits(n \div 10), Digits[(n % 10) + 1])

\* ratio.toFixed(2): the nearest multiple of 0.01.
toFixed2(ratio) ==
  IF ratio = NaNRatio THEN <<"N", "a", "N">>
  ELSE LET q == ratio[1] \div ratio[2]
           r == ratio[1] % ratio[2]
           cents == 100 * q + (200 * r + ratio[2]) \div (2 * ratio[2])
       IN  decimalDigits(cents \div 100)
             \o <<".", Digits[((cents \div 10) % 10) + 1], Digits[(cents % 10) + 1]>>

formatContrastRatio(ratio) == toFixed2(ratio) \o <<":", "1">>

checkWCAGCompliance(ratio) ==
  [ratio         |-> ratio,
   ratioString   |-> formatContrastRatio(ratio),
   normalTextAA  |-> numberGE(ratio, WCAG_THRESHOLDS.normalTextAA),
   normalTextAAA |-> numberGE(ratio, WCAG_THRESHOLDS.normalTextAAA),
   largeTextAA   |-> numberGE(ratio, WCAG_THRESHOLDS.largeTextAA),
   largeTextAAA  |-> numberGE(ratio, WCAG_THRESHOLDS.largeTextAAA),
   uiComponents  |-> numberGE(ratio, WCAG_THRESHOLDS.uiComponents)]

\* Faulty variant: the AA threshold is tested first.
getNormalTextLevel_AAFirst(ratio) ==
  IF numberGE(ratio, WCAG_THRESHOLDS.normalTextAA)
    THEN [level |-> "AA", label |-> "AA Pass"]
  ELSE IF numberGE(ratio, WCAG_THRESHOLDS.normalTextAAA)
    THEN [level |-> "AAA", label |-> "AAA Pass"]
  ELSE [level |-> "Fail", label |-> "Fail"]

getNormalTextLevel(ratio) ==
  IF numberGE(ratio, WCAG_THRESHOLDS.normalTextAAA)
    THEN [level |-> "AAA", label |-> "AAA Pass"]
  ELSE IF numberGE(ratio, WCAG_THRESHOLDS.normalTextAA)
    THEN [level |-> "AA", label |-> "AA Pass"]
  ELSE [level |-> "Fail", label |-> "Fail"]

getLargeTextLevel(ratio) ==
  IF numberGE(ratio, WCAG_THRESHOLDS.largeTextAAA)
    THEN [level |-> "AAA", label |-> "AAA Pass"]
  ELSE IF numberGE(ratio, WCAG_THRESHOLDS.largeTextAA)
    THEN [level |-> "AA", label |-> "AA Pass"]
  ELSE [level |-> "Fail", label |-> "Fail"]

(***************************************************************************)
(* palette.ts: the contrast matrix.                                        *)
(***************************************************************************)
\* Faulty variant: a hex that does not parse gives the ratio 0.
calculatePairContrast_ZeroOnMalformed(foreground, background) ==
  LET fgRgb == hexToRgb(foreground.hex)
      bgRgb == hexToRgb(background.hex)
  IN  IF fgRgb = None \/ bgRgb = None THEN <<0, 1>>
      ELSE getContrastRatio(fgRgb[1], bgRgb[1])

calculatePairContrast(foreground, background) ==
  LET fgRgb == hexToRgb(foreground.hex)
      bgRgb == hexToRgb(background.hex)
  IN  IF fgRgb = None \/ bgRgb = None THEN <<1, 1>>
      ELSE getContrastRatio(fgRgb[1], bgRgb[1])

\* matrix[i][j]: row i is the background colours[i], cell j the foreground
\* colours[j].
generateContrastMatrix(colors) ==
  [i \in DOMAIN colors |->
     [j \in DOMAIN colors |->
        [foregroundId |-> colors[j].id,
         backgroundId |-> colors[i].id,
         ratio        |-> calculatePairContrast(colors[j], colors[i]),
         compliance   |-> checkWCAGCompliance(calculatePairContrast(colors[j], colors[i]))]]]

(***************************************************************************)
(* Inputs.                                                                 *)
(***************************************************************************)
\* n evenly spread channel values from 0 to 255, and the two values on
\* either side of the 0.03928 breakpoint of the luminance formula.
ChannelGrid(n) == {(255 * i) \div (n - 1) : i \in 0 .. n - 1} \cup {10, 11}

ContrastColours ==
  {RGB(r, g, b) : r \in ChannelGrid(ContrastLevels),
                  g \in ChannelGrid(ContrastLevels),
                  b \in ChannelGrid(ContrastLevels)}

\* A spread of colours of mixed hue, saturation and lightness.
SampleColour(i) == RGB((i * 83 + 200) % 256, (i * 151 + 100) % 256, (i * 59 + 50) % 256)

SearchColours ==
  {SampleColour(i) : i \in 0 .. NumSearchColours - 1}
    \cup {RGB(0, 0, 0), RGB(255, 255, 255), RGB(128, 128, 128), RGB(200, 200, 200)}

\* Target ratios: the three WCAG thresholds.
SearchTargets ==
  {WCAG_THRESHOLDS.largeTextAA, WCAG_THRESHOLDS.normalTextAA, WCAG_THRESHOLDS.normalTextAAA}

\* A '#', a digit, a lower-case and an upper-case hex letter, a letter that
\* is no hex digit.
TextAlphabet == {"#", "3", "a", "F", "g"}

Texts == UNION {[1 .. n -> TextAlphabet] : n \in 0 .. MaxTextLen}

\* Channel values handed to rgbToHex: below 0, above 255, halves, and the
\* values around the one-digit / two-digit boundary.
ChannelInputs ==
  {<<-3, 1>>, <<0, 1>>, <<9, 2>>, <<15, 1>>, <<16, 1>>, <<171, 1>>, <<255, 2>>,
   <<509, 2>>, <<255, 1>>, <<300, 1>>}

RgbInputs ==
  {RGB(<<r, 1>>, g, b) : r \in 0 .. 255, g \in {<<0, 1>>, <<10, 1>>, <<171, 1>>, <<255, 1>>},
                         b \in ChannelInputs}

\* The values a call of Math.random() may return.
RandomValues == {<<j, RandomSteps>> : j \in 0 .. RandomSteps - 1}

\* The hex colours among Texts, those written with '#' anywhere else left out.
ValidHexTexts == {t \in Texts : isValidHex(t)}

\* Tokens of the JSON texts another script may leave under the palette key.
JsonTokens ==
  {P("["), P("]"), P("{"), P("}"), P(","), <<"num", <<"1">>>>, <<"lit", <<"n", "u", "l", "l">>>>,
   Str(<<"x">>)}

ForeignPaletteTexts == UNION {[1 .. n -> JsonTokens] : n \in 0 .. MaxJsonTokens}

\* Texts another script may leave under the CVD-mode key: a mode written by
\* setCVDMode in another tab, the empty text, a text that is no mode.
ForeignModeTexts == CVDType \cup {"", "sepia"}

PaletteColours ==
  {[id |-> <<"1">>, name |-> <<"S", "k", "y">>, hex |-> <<"#", "3", "a", "F">>],
   [id |-> <<"2">>, name |-> <<"s", "k", "y">>, hex |-> <<"#", "0", "0", "0", "0", "0", "0">>]}

Palettes == UNION {[1 .. n -> PaletteColours] : n \in 0 .. MaxPaletteLen}

(***************************************************************************)
(* Operations.  A pure function is called once on inputs drawn by Init.    *)
(***************************************************************************)
InitState ==
  /\ currentCVDMode = "none"
  /\ localStorage = [k \in {CVD_STORAGE_KEY, STORAGE_KEY} |-> None]
  /\ html = [filter |-> <<>>, dataCvdMode |-> None]
  /\ dispatched = <<>>

Return(v) ==
  /\ pc' = "done"
  /\ ret' = v
  /\ UNCHANGED <<call, currentCVDMode, localStorage, html, dispatched>>

CallGetContrastRatio ==
  /\ pc = "call"
  /\ call.fn = "getContrastRatio"
  /\ Return(Some(getContrastRatio(call.color1, call.color2)))

InitContrast ==
  /\ pc = "call"
  /\ ret = None
  /\ call \in [fn : {"getContrastRatio"}, color1 : ContrastColours, color2 : ContrastColours]
  /\ InitState

NextContrast == CallGetContrastRatio

SpecContrast == InitContrast /\ [][NextContrast]_vars

\* C1: getContrastRatio(a, b) equals getContrastRatio(b, a), and the ratio
\* is never below 1.0 and never above 21.0.
C1_SymmetricInRange ==
  (pc = "done" /\ call.fn = "getContrastRatio") =>
    /\ ret[1] = getContrastRatio(call.color2, call.color1)
    /\ RatGE(ret[1], <<1, 1>>)
    /\ RatLE(ret[1], <<21, 1>>)

\* Two colours of different luminance were compared, among them black on white.
C1_Witness ==
  /\ pc = "done"
  /\ call.fn = "getContrastRatio"
  /\ call.color1 = RGB(0, 0, 0)
  /\ call.color2 = RGB(255, 255, 255)
  /\ RatEQ(ret[1], <<21, 1>>)

CallFindPassingColor ==
  /\ pc = "call"
  /\ call.fn = "findPassingColor"
  /\ Return(findPassingColor(call.colorToAdjust, call.referenceColor, call.targetRatio))

InitSearch ==
  /\ pc = "call"
  /\ ret = None
  /\ call \in [fn : {"findPassingColor"}, colorToAdjust : SearchColours,
               referenceColor : SearchColours, targetRatio : SearchTargets]
  /\ InitState

NextSearch == CallFindPassingColor

SpecSearch == InitSearch /\ [][NextSearch]_vars

\* C2: a colour returned by findPassingColor has a contrast ratio against
\* the reference colour of at least the target ratio.
C2_ReturnedColourPasses ==
  (pc = "done" /\ call.fn = "findPassingColor" /\ ret # None) =>
    RatGE(getContrastRatio(ret[1], call.referenceColor), call.targetRatio)

\* The input colour failed the target and the search returned another colour.
C2_Witness ==
  /\ pc = "done"
  /\ call.fn = "findPassingColor"
  /\ ret # None
  /\ ret[1] # call.colorToAdjust
  /\ ~RatGE(getContrastRatio(call.colorToAdjust, call.referenceColor), call.targetRatio)

\* Lightness L (percent) at the hue and saturation of colour passes the target.
LightnessPasses(colour, referenceColor, targetRatio, L) ==
  RatGE(getContrastRatio(hslToRgb([rgbToHsl(colour) EXCEPT !.l = <<L, 1>>]), referenceColor),
        targetRatio)

\* C3: findPassingColor returns null only when no lightness in 0..100, at
\* the hue and saturation of the input, meets the target against the
\* reference; if some lightness passes, a colour is returned.
C3_NullOnlyWhenNonePasses ==
  (pc = "done" /\ call.fn = "findPassingColor") =>
    /\ ret = None =>
         \A L \in 0 .. 100 :
           ~LightnessPasses(call.colorToAdjust, call.referenceColor, call.targetRatio, L)
    /\ (\E L \in 0 .. 100 :
          LightnessPasses(call.colorToAdjust, call.referenceColor, call.targetRatio, L))
         => ret # None

\* A search over a colour that is neither black nor white returned null.
C3_Witness ==
  /\ pc = "done"
  /\ call.fn = "findPassingColor"
  /\ ret = None
  /\ call.colorToAdjust \notin {RGB(0, 0, 0), RGB(255, 255, 255)}

CallHexToRgb ==
  /\ pc = "call"
  /\ call.fn = "hexToRgb"
  /\ Return(hexToRgb(call.hex))

CallRgbToHex ==
  /\ pc = "call"
  /\ call.fn = "rgbToHex"
  /\ Return(Some(rgbToHex(call.rgb)))

InitCodec ==
  /\ pc = "call"
  /\ ret = None
  /\ \/ call \in [fn : {"hexToRgb"}, hex : Texts]
     \/ call \in [fn : {"rgbToHex"}, rgb : RgbInputs]
  /\ InitState

NextCodec == CallHexToRgb \/ CallRgbToHex

SpecCodec == InitCodec /\ [][NextCodec]_vars

\* The text is a 3- or 6-digit hex colour with at most one leading '#'.
WellFormedHex(hex) ==
  \E n \in {3, 6} :
    \/ Len(hex) = n /\ \A i \in 1 .. n : IsHexDigit(hex[i])
    \/ Len(hex) = n + 1 /\ hex[1] = "#" /\ \A i \in 2 .. n + 1 : IsHexDigit(hex[i])

IsByte(n) == n \in 0 .. 255

\* C5: hexToRgb returns null for every malformed text and an RGB of three
\* integers in 0..255 for every 3- or 6-digit hex text; it always returns.
C5_HexToRgbTotal ==
  (pc = "done" /\ call.fn = "hexToRgb") =>
    IF WellFormedHex(call.hex)
      THEN ret # None /\ IsByte(ret[1].r) /\ IsByte(ret[1].g) /\ IsByte(ret[1].b)
      ELSE ret = None

\* A 3-digit text with '#' was expanded and parsed.
C5_Witness ==
  /\ pc = "done"
  /\ call.fn = "hexToRgb"
  /\ call.hex = <<"#", "a", "F", "3">>
  /\ ret = Some(RGB(170, 255, 51))

\* A text of 6 characters, one of them no hex digit, was rejected.
C5_WitnessMalformed ==
  /\ pc = "done"
  /\ call.fn = "hexToRgb"
  /\ call.hex = <<"a", "F", "3", "g", "a", "a">>
  /\ ret = None

\* The channels of rgb are integers in 0..255.
IsByteRGB(rgb) ==
  \A c \in {rgb.r, rgb.g, rgb.b} : c[2] = 1 /\ IsByte(c[1])

\* C6: hexToRgb(rgbToHex(rgb)) equals rgb, channel by channel, for every
\* RGB of integer channels in 0..255.
C6_RoundTrip ==
  (pc = "done" /\ call.fn = "rgbToHex" /\ IsByteRGB(call.rgb)) =>
    hexToRgb(ret[1]) = Some(RGB(call.rgb.r[1], call.rgb.g[1], call.rgb.b[1]))

\* A colour with a one-digit channel and a channel written with letters.
C6_Witness ==
  /\ pc = "done"
  /\ call.fn = "rgbToHex"
  /\ call.rgb = RGB(<<9, 1>>, <<171, 1>>, <<255, 1>>)
  /\ ret = Some(<<"#", "0", "9", "a", "b", "f", "f">>)

\* The channel n as rgbToHex is to render it: rounded, clamped to 0..255.
RoundedClamped(n) ==
  LET rounded == IF (2 * n[1]) % (2 * n[2]) = n[2] THEN (2 * n[1] + n[2]) \div (2 * n[2])
                 ELSE CHOOSE k \in -4 .. 301 : Abs(2 * (k * n[2] - n[1])) < n[2]
  IN  IF rounded < 0 THEN 0 ELSE IF rounded > 255 THEN 255 ELSE rounded

\* C7 as stated: rgbToHex returns '#' and six hex digits, the letters in
\* upper case.
C7_UppercaseHex ==
  (pc = "done" /\ call.fn = "rgbToHex") =>
    /\ Len(ret[1]) = 7
    /\ ret[1][1] = "#"
    /\ \A i \in 2 .. 7 : ret[1][i] \in Range(HexUpper)

\* C7 amended: rgbToHex returns 7 characters, '#' and the three channels
\* (rounded, clamped to 0..255) as two hex digits each, the letters in
\* lower case.
C7_LowercaseHex ==
  (pc = "done" /\ call.fn = "rgbToHex") =>
    /\ Len(ret[1]) = 7
    /\ ret[1][1] = "#"
    /\ \A i \in 2 .. 7 : ret[1][i] \in Range(HexLower)
    /\ \A k \in 0 .. 2 :
         16 * HexValue(ret[1][2 * k + 2]) + HexValue(ret[1][2 * k + 3])
           = RoundedClamped(<<call.rgb.r, call.rgb.g, call.rgb.b>>[k + 1])

\* A channel below 0, a half that rounds up, and a channel above 255.
C7_Witness ==
  /\ pc = "done"
  /\ call.fn = "rgbToHex"
  /\ call.rgb = RGB(<<200, 1>>, <<171, 1>>, <<300, 1>>)
  /\ ret = Some(<<"#", "c", "8", "a", "b", "f", "f">>)

CallGenerateAccessiblePair ==
  /\ pc = "call"
  /\ call.fn = "generateAccessiblePair"
  /\ Return(Some(generateAccessiblePair(call.u1, call.u2, call.u3, call.u4)))

InitPair ==
  /\ pc = "call"
  /\ ret = None
  /\ call \in [fn : {"generateAccessiblePair"}, u1 : RandomValues, u2 : RandomValues,
               u3 : RandomValues, u4 : RandomValues]
  /\ InitState

NextPair == CallGenerateAccessiblePair

SpecPair == InitPair /\ [][NextPair]_vars

\* C4: the background of a generated pair is one of the 8 swatches and the
\* contrast of its foreground against it is at least 4.5.
C4_PairMeetsAA ==
  (pc = "done" /\ call.fn = "generateAccessiblePair") =>
    /\ ret[1].background \in Range(backgrounds)
    /\ hexToRgb(ret[1].foreground) # None
    /\ RatGE(getContrastRatio(hexToRgb(ret[1].foreground)[1],
                              hexToRgb(ret[1].background)[1]),
             <<9, 2>>)

\* The foreground drawn at random failed AA and the search replaced it.
C4_Witness ==
  /\ pc = "done"
  /\ call.fn = "generateAccessiblePair"
  /\ LET bgRgb == hexToRgb(ret[1].background)[1]
         picked == randomForeground(bgRgb, call.u2, call.u3, call.u4)
     IN  /\ RatLT(getContrastRatio(picked, bgRgb), <<9, 2>>)
         /\ ret[1].foreground # rgbToHex(Numeric(picked))

CallSimulateCVD ==
  /\ pc = "call"
  /\ call.fn = "simulateCVD"
  /\ Return(Some(simulateCVD(call.hex, call.cvdType)))

InitCVD ==
  /\ pc = "call"
  /\ ret = None
  /\ call \in [fn : {"simulateCVD"}, hex : ValidHexTexts, cvdType : CVDType]
  /\ InitState

NextCVD == CallSimulateCVD

SpecCVD == InitCVD /\ [][NextCVD]_vars

\* C8: for a valid hex colour (3 or 6 digits, with or without '#') and a
\* CVD type other than none, simulateCVD returns '#' and exactly 6
\* upper-case hex digits.
C8_SimulatedIsNormalizedHex ==
  (pc = "done" /\ call.fn = "simulateCVD" /\ call.cvdType # "none") =>
    /\ Len(ret[1]) = 7
    /\ ret[1][1] = "#"
    /\ \A i \in 2 .. Len(ret[1]) : ret[1][i] \in Range(HexUpper)

\* What does hold: the same for the 6-digit colours.
C8_SixDigitIsNormalizedHex ==
  (pc = "done" /\ call.fn = "simulateCVD" /\ call.cvdType # "none"
     /\ Len(StripHash(call.hex)) = 6) =>
    /\ Len(ret[1]) = 7
    /\ ret[1][1] = "#"
    /\ \A i \in 2 .. Len(ret[1]) : ret[1][i] \in Range(HexUpper)

(***************************************************************************)
(* The operations on the state: each runs to completion in one step.       *)
(***************************************************************************)
Returned(c, v) ==
  /\ pc' = "done"
  /\ call' = c
  /\ ret' = v

InitIdle ==
  /\ pc = "idle"
  /\ call = [fn |-> "none"]
  /\ ret = None
  /\ InitState

\* Another script of the page, another tab of the site or the user writes
\* the store.
ForeignSetItem(key, text) ==
  /\ localStorage' = [localStorage EXCEPT ![key] = Some(text)]
  /\ pc' = "idle"
  /\ call' = [fn |-> "none"]
  /\ ret' = None
  /\ UNCHANGED <<currentCVDMode, html, dispatched>>

ForeignRemoveItem(key) ==
  /\ localStorage[key] # None
  /\ localStorage' = [localStorage EXCEPT ![key] = None]
  /\ pc' = "idle"
  /\ call' = [fn |-> "none"]
  /\ ret' = None
  /\ UNCHANGED <<currentCVDMode, html, dispatched>>

SavePalette(colors) ==
  /\ localStorage' = [localStorage EXCEPT ![STORAGE_KEY] = Some(JSONStringify(colors))]
  /\ Returned([fn |-> "savePalette", colors |-> colors], None)
  /\ UNCHANGED <<currentCVDMode, html, dispatched>>

LoadPalette ==
  /\ Returned([fn |-> "loadPalette"], Some(loadPalette(localStorage)))
  /\ UNCHANGED <<currentCVDMode, localStorage, html, dispatched>>

ClearStoredPalette ==
  /\ localStorage' = [localStorage EXCEPT ![STORAGE_KEY] = None]
  /\ Returned([fn |-> "clearStoredPalette"], None)
  /\ UNCHANGED <<currentCVDMode, html, dispatched>>

NextPalette ==
  \/ \E colors \in Palettes : SavePalette(colors)
  \/ LoadPalette
  \/ ClearStoredPalette
  \/ \E text \in ForeignPaletteTexts : ForeignSetItem(STORAGE_KEY, text)
  \/ ForeignRemoveItem(STORAGE_KEY)

SpecPalette == InitIdle /\ [][NextPalette]_vars

IsPaletteColor(o) ==
  /\ o.t = "object"
  /\ Len(o.v) = 3
  /\ {o.v[i].key : i \in 1 .. 3} = {<<"i", "d">>, <<"n", "a", "m", "e">>, <<"h", "e", "x">>}
  /\ \A i \in 1 .. 3 : o.v[i].value.t = "string"

IsPaletteList(v) ==
  /\ v.t = "array"
  /\ \A i \in DOMAIN v.v : IsPaletteColor(v.v[i])

\* C9: loadPalette always returns a list of palette colour records: the
\* empty list when the stored value is missing, is no JSON, or does not
\* decode to a list of {id, name, hex} records.
C9_LoadPaletteReturnsPalette ==
  (pc = "done" /\ call.fn = "loadPalette") =>
    /\ IsPaletteList(ret[1])
    /\ LET stored == localStorage[STORAGE_KEY]
       IN  (stored = None \/ ~JSONParse(stored[1]).ok \/ ~IsPaletteList(JSONParse(stored[1]).v))
             => ret[1] = JArr(<<>>)

\* What does hold: the empty list for a missing, empty or unparseable text,
\* and else whatever value the text decodes to.
C9_LoadPaletteReturnsDecoded ==
  (pc = "done" /\ call.fn = "loadPalette") =>
    LET stored == localStorage[STORAGE_KEY]
    IN  IF stored = None \/ ~JSONParse(stored[1]).ok
          THEN ret[1] = JArr(<<>>)
          ELSE ret[1] = JSONParse(stored[1]).v

\* window.dispatchEvent(event) runs the listeners before it returns: seen is
\* what a listener reads then with getCurrentCVDMode(), with
\* localStorage.getItem(CVD_STORAGE_KEY) and from the data-cvd-mode
\* attribute.
dispatchEvent(events, mode, modeNow, storeNow, htmlNow) ==
  Append(events,
         [type |-> "cvdModeChange", detail |-> [mode |-> mode],
          seen |-> [mode |-> modeNow, stored |-> storeNow[CVD_STORAGE_KEY],
                    dataCvdMode |-> htmlNow.dataCvdMode]])

\* Faulty variant: the event is dispatched before the mode is assigned.
setCVDMode_DispatchFirst(mode) ==
  /\ dispatched' = dispatchEvent(dispatched, mode, currentCVDMode, localStorage, html)
  /\ currentCVDMode' = mode
  /\ localStorage' = [localStorage EXCEPT ![CVD_STORAGE_KEY] = Some(mode)]
  /\ html' = IF mode = "none"
               THEN [filter |-> <<>>, dataCvdMode |-> None]
               ELSE [filter |-> <<"url(#">> \o getCVDFilterId(mode) \o <<")">>,
                     dataCvdMode |-> Some(mode)]

\* Set CVD mode and apply to page: the body of setCVDMode(mode), its
\* statements in the order of the code.
setCVDMode(mode) ==
  /\ currentCVDMode' = mode
  /\ localStorage' = [localStorage EXCEPT ![CVD_STORAGE_KEY] = Some(mode)]
  /\ html' = IF mode = "none"
               THEN [filter |-> <<>>, dataCvdMode |-> None]
               ELSE [filter |-> <<"url(#">> \o getCVDFilterId(mode) \o <<")">>,
                     dataCvdMode |-> Some(mode)]
  /\ dispatched' = dispatchEvent(dispatched, mode, currentCVDMode', localStorage', html')

SetCVDMode(mode) ==
  /\ Len(dispatched) < MaxEvents
  /\ setCVDMode(mode)
  /\ Returned([fn |-> "setCVDMode", mode |-> mode], None)

GetCurrentCVDMode ==
  /\ Returned([fn |-> "getCurrentCVDMode"], Some(currentCVDMode))
  /\ UNCHANGED <<currentCVDMode, localStorage, html, dispatched>>

InitCVDMode ==
  LET stored == localStorage[CVD_STORAGE_KEY]
  IN  /\ IF stored # None /\ stored[1] # "" /\ stored[1] \in Range(CVD_TYPES)
           THEN Len(dispatched) < MaxEvents /\ setCVDMode(stored[1])
           ELSE UNCHANGED <<currentCVDMode, localStorage, html, dispatched>>
      /\ Returned([fn |-> "initCVDMode"], None)

Next ==
  \/ \E mode \in CVDType : SetCVDMode(mode)
  \/ GetCurrentCVDMode
  \/ InitCVDMode
  \/ \E text \in ForeignModeTexts : ForeignSetItem(CVD_STORAGE_KEY, text)
  \/ ForeignRemoveItem(CVD_STORAGE_KEY)

Spec == InitIdle /\ [][Next]_vars

\* C10: after initCVDMode the current mode is the stored value when that is
\* one of the five modes, and 'none' when the key is missing or holds any
\* other text, whatever the mode and the store were before.
C10_InitFollowsStore ==
  (pc = "done" /\ call.fn = "initCVDMode") =>
    LET stored == localStorage[CVD_STORAGE_KEY]
    IN  currentCVDMode = IF stored # None /\ stored[1] \in CVDType THEN stored[1] ELSE "none"

\* What does hold: the stored value when that is one of the four modes of
\* CVD_TYPES.
C10_InitAppliesStoredDeficiency ==
  (pc = "done" /\ call.fn = "initCVDMode") =>
    LET stored == localStorage[CVD_STORAGE_KEY]
    IN  (stored # None /\ stored[1] \in Range(CVD_TYPES)) => currentCVDMode = stored[1]

\* The last cvdModeChange event dispatched.
LastEvent == dispatched[Len(dispatched)]

\* The in-memory mode is the argument of the most recent setCVDMode, what
\* getCurrentCVDMode returns; right after a call the store holds it too; the
\* listeners of every event saw the mode of the event in memory and in the
\* store.
C16_ModeFollowsLastCall ==
  /\ currentCVDMode = IF dispatched = <<>> THEN "none" ELSE LastEvent.detail.mode
  /\ (pc = "done" /\ call.fn = "getCurrentCVDMode") => ret = Some(currentCVDMode)
  /\ (pc = "done" /\ call.fn = "setCVDMode") =>
       /\ currentCVDMode = call.mode
       /\ localStorage[CVD_STORAGE_KEY] = Some(call.mode)
       /\ dispatched # <<>>
       /\ LastEvent.detail.mode = call.mode
  /\ \A k \in DOMAIN dispatched :
       /\ dispatched[k].type = "cvdModeChange"
       /\ dispatched[k].seen.mode = dispatched[k].detail.mode
       /\ dispatched[k].seen.stored = Some(dispatched[k].detail.mode)

\* A call of setCVDMode dispatches one event, and only setCVDMode, called
\* directly or by initCVDMode, changes the mode or dispatches.
C16_OneEventPerCall ==
  /\ (call'.fn = "setCVDMode" /\ pc' = "done") =>
       /\ Len(dispatched') = Len(dispatched) + 1
       /\ SubSeq(dispatched', 1, Len(dispatched)) = dispatched
  /\ (currentCVDMode' # currentCVDMode \/ dispatched' # dispatched) =>
       call'.fn \in {"setCVDMode", "initCVDMode"}

\* C16: after setCVDMode calls getCurrentCVDMode returns the argument of
\* the most recent call and the store key holds it; each call dispatches
\* exactly one cvdModeChange event with that mode, after the mode and the
\* store were updated, so a listener reading them sees the new mode; no
\* other operation changes the in-memory mode.
C16_SetModeThenNotify == [](C16_ModeFollowsLastCall) /\ [][C16_OneEventPerCall]_vars

\* getCurrentCVDMode returned the mode of the second of two calls of
\* setCVDMode with different modes.
C16_Witness ==
  /\ pc = "done"
  /\ call.fn = "getCurrentCVDMode"
  /\ Len(dispatched) = 2
  /\ dispatched[1].detail.mode # dispatched[2].detail.mode
  /\ ret = Some(dispatched[2].detail.mode)
  /\ dispatched[2].seen.mode = dispatched[2].detail.mode

(***************************************************************************)
(* The exporters and the contrast matrix, called once on a palette.        *)
(***************************************************************************)
\* Names that make the same key (Sky, sky, sky!), a name of two words, a
\* name that is an array index; a 3-digit hex and a text that is no hex.
ExportColours ==
  {[id |-> <<"1">>, name |-> <<"S", "k", "y">>,
    hex |-> <<"#", "1", "e", "9", "0", "F", "F">>],
   [id |-> <<"2">>, name |-> <<"s", "k", "y">>,
    hex |-> <<"#", "0", "0", "0", "0", "0", "0">>],
   [id |-> <<"3">>, name |-> <<"s", "k", "y", "!">>, hex |-> <<"#", "3", "a", "F">>],
   [id |-> <<"4">>, name |-> <<"S", "e", "a", " ", "1">>, hex |-> <<"z", "z", "z">>],
   [id |-> <<"5">>, name |-> <<"1">>, hex |-> <<"#", "f", "f", "f", "f", "f", "f">>]}

\* A colour whose red channel is c: every 8-bit value is the red, the green
\* and the blue channel of some such colour.
ChannelColour(c) ==
  [id |-> <<"c">>, name |-> <<"c">>,
   hex |-> <<"#">> \o padStart2(toString16(c)) \o padStart2(toString16(255 - c))
             \o padStart2(toString16((c + 128) % 256))]

ExportPalettes ==
  UNION {[1 .. n -> ExportColours] : n \in 0 .. MaxPaletteLen}
    \cup {<<ChannelColour(c)>> : c \in 0 .. 255}

Exporters ==
  {"exportAsCSS", "exportAsJSON", "exportAsTailwind", "exportAsSCSS",
   "exportAsDesignTokens", "exportAsSwift", "exportAsAndroidXML"}

ExportAsCSS ==
  /\ pc = "call"
  /\ call.fn = "exportAsCSS"
  /\ Return(Some(exportAsCSS(call.colors)))

ExportAsJSON ==
  /\ pc = "call"
  /\ call.fn = "exportAsJSON"
  /\ Return(Some(exportAsJSON(call.colors)))

ExportAsTailwind ==
  /\ pc = "call"
  /\ call.fn = "exportAsTailwind"
  /\ Return(Some(exportAsTailwind(call.colors)))

ExportAsSCSS ==
  /\ pc = "call"
  /\ call.fn = "exportAsSCSS"
  /\ Return(Some(exportAsSCSS(call.colors)))

ExportAsDesignTokens ==
  /\ pc = "call"
  /\ call.fn = "exportAsDesignTokens"
  /\ Return(Some(exportAsDesignTokens(call.colors)))

ExportAsSwift ==
  /\ pc = "call"
  /\ call.fn = "exportAsSwift"
  /\ Return(Some(exportAsSwift(call.colors)))

ExportAsAndroidXML ==
  /\ pc = "call"
  /\ call.fn = "exportAsAndroidXML"
  /\ Return(Some(exportAsAndroidXML(call.colors)))

GenerateContrastMatrix ==
  /\ pc = "call"
  /\ call.fn = "generateContrastMatrix"
  /\ Return(Some(generateContrastMatrix(call.colors)))

InitExport ==
  /\ pc = "call"
  /\ ret = None
  /\ call \in [fn : Exporters \cup {"generateContrastMatrix"}, colors : ExportPalettes]
  /\ InitState

NextExport ==
  \/ ExportAsCSS
  \/ ExportAsJSON
  \/ ExportAsTailwind
  \/ ExportAsSCSS
  \/ ExportAsDesignTokens
  \/ ExportAsSwift
  \/ ExportAsAndroidXML
  \/ GenerateContrastMatrix

SpecExport == InitExport /\ [][NextExport]_vars

\* What exporter fn returns for the palette.
exportWith(fn, colors) ==
  CASE fn = "exportAsCSS" -> exportAsCSS(colors)
    [] fn = "exportAsJSON" -> exportAsJSON(colors)
    [] fn = "exportAsTailwind" -> exportAsTailwind(colors)
    [] fn = "exportAsSCSS" -> exportAsSCSS(colors)
    [] fn = "exportAsDesignTokens" -> exportAsDesignTokens(colors)
    [] fn = "exportAsSwift" -> exportAsSwift(colors)
    [] fn = "exportAsAndroidXML" -> exportAsAndroidXML(colors)

\* The line that is one colour entry in the output of exporter fn (for
\* SCSS the variable; the map repeats the variables).
EntryLine(fn) ==
  CASE fn = "exportAsCSS" -> "  --color-${varName}: ${color.hex};"
    [] fn = "exportAsJSON" -> "    \"${key}\": \"${color.hex}\""
    [] fn = "exportAsTailwind" -> "        '${key}': '${color.hex}',"
    [] fn = "exportAsSCSS" -> "$color-${varName}: ${color.hex};"
    [] fn = "exportAsDesignTokens" -> "      \"$value\": \"${color.hex}\","
    [] fn = "exportAsSwift" -> "        static let ${propertyName} = UIColor(red: ${r}, green: ${g}, blue: ${b}, alpha: 1.0)"
    [] fn = "exportAsAndroidXML" -> "    <color name=\"${name}\">${color.hex}</color>"

\* The number of colour entries in the output out of exporter fn.
ColourEntries(fn, out) == Cardinality({i \in DOMAIN out : out[i].line = EntryLine(fn)})

\* C11: the seven exporters emit the same number of colour entries for a
\* palette, also when two of its names make the same key: either all emit
\* one entry per colour or all keep the last colour of a key only.
C11_SameEntryCount ==
  (pc = "done" /\ call.fn \in Exporters) =>
    \A fn \in Exporters :
      ColourEntries(fn, exportWith(fn, call.colors)) = ColourEntries(call.fn, ret[1])

\* What does hold: the exporters that push lines emit one entry per colour,
\* the two that fill an object emit one entry per key.
C11_EntriesPerExporter ==
  (pc = "done" /\ call.fn \in Exporters) =>
    ColourEntries(call.fn, ret[1]) =
      IF call.fn = "exportAsJSON"
        THEN Cardinality({sanitizeKey(call.colors[i].name, "_") : i \in DOMAIN call.colors})
      ELSE IF call.fn = "exportAsDesignTokens"
        THEN Cardinality({sanitizeKey(call.colors[i].name, "-") : i \in DOMAIN call.colors})
      ELSE Len(call.colors)

\* hex is six hex digits, with or without a leading '#'.
SixDigitHex(hex) ==
  /\ Len(StripHash(hex)) = 6
  /\ \A i \in 1 .. 6 : IsHexDigit(StripHash(hex)[i])

\* Math.round(parseFloat(t) * 255) for a printed float t = d.ddd.
PrintedChannel(t) ==
  RoundDiv((1000 * (IndexOf(t[1], Digits) - 1) + 100 * (IndexOf(t[3], Digits) - 1)
              + 10 * (IndexOf(t[4], Digits) - 1) + (IndexOf(t[5], Digits) - 1)) * 255,
           1000)

\* C12: for every channel value c in 0..255 the float exportAsSwift prints
\* for c / 255, times 255 and rounded, is c again: the Swift line of a
\* colour denotes the 8-bit colour of its six-digit hex.
C12_SwiftKeepsChannels ==
  (pc = "done" /\ call.fn = "exportAsSwift") =>
    \A i \in DOMAIN call.colors :
      SixDigitHex(call.colors[i].hex) =>
        LET printed == ret[1][4 + i]
            rgb == hexToRgb(call.colors[i].hex)[1]
        IN  /\ PrintedChannel(printed.red) = rgb.r
            /\ PrintedChannel(printed.green) = rgb.g
            /\ PrintedChannel(printed.blue) = rgb.b

\* Channel 128 was printed as 0.502, which is not 128 / 255 exactly.
C12_Witness ==
  /\ pc = "done"
  /\ call.fn = "exportAsSwift"
  /\ call.colors = <<ChannelColour(128)>>
  /\ ret[1][5].red = <<"0", ".", "5", "0", "2">>
  /\ ret[1][5].green = <<"0", ".", "4", "9", "8">>

\* C13: generateContrastMatrix returns N rows of N cells for a palette of
\* N colours, cell (i, j) carries the id of colour i as backgroundId and
\* the id of colour j as foregroundId, and the ratio of every diagonal
\* cell is exactly 1, also for a hex that does not parse.
C13_DiagonalIsOne ==
  (pc = "done" /\ call.fn = "generateContrastMatrix") =>
    LET matrix == ret[1]
        colors == call.colors
    IN  /\ DOMAIN matrix = DOMAIN colors
        /\ \A i \in DOMAIN colors :
              /\ DOMAIN matrix[i] = DOMAIN colors
              /\ \A j \in DOMAIN colors :
                    /\ matrix[i][j].backgroundId = colors[i].id
                    /\ matrix[i][j].foregroundId = colors[j].id
              /\ matrix[i][i].ratio # NaNRatio
              /\ matrix[i][i].ratio[1] = matrix[i][i].ratio[2]

\* A matrix of two colours: the hex of the first does not parse, the second
\* is a colour whose ratio against itself was computed from its luminance.
C13_Witness ==
  /\ pc = "done"
  /\ call.fn = "generateContrastMatrix"
  /\ Len(call.colors) = 2
  /\ call.colors[1].id # call.colors[2].id
  /\ hexToRgb(call.colors[1].hex) = None
  /\ hexToRgb(call.colors[2].hex) # None
  /\ ret[1][2][2].ratio[1] > 1
  /\ ret[1][1][1].ratio = <<1, 1>>

(***************************************************************************)
(* The grading functions, called once on a ratio.                          *)
(***************************************************************************)
\* The multiples of 1 / RatioSteps from 0 to 22, the thresholds 3, 4.5 and 7,
\* the hundredth below each of them, and NaN.
GradeRatios ==
  {<<n, RatioSteps>> : n \in 0 .. 22 * RatioSteps}
    \cup {<<3, 1>>, <<9, 2>>, <<7, 1>>, <<299, 100>>, <<449, 100>>, <<699, 100>>}
    \cup {NaNRatio}

CheckWCAGCompliance ==
  /\ pc = "call"
  /\ call.fn = "checkWCAGCompliance"
  /\ Return(Some(checkWCAGCompliance(call.ratio)))

GetNormalTextLevel ==
  /\ pc = "call"
  /\ call.fn = "getNormalTextLevel"
  /\ Return(Some(getNormalTextLevel(call.ratio)))

GetLargeTextLevel ==
  /\ pc = "call"
  /\ call.fn = "getLargeTextLevel"
  /\ Return(Some(getLargeTextLevel(call.ratio)))

InitGrade ==
  /\ pc = "call"
  /\ ret = None
  /\ call \in [fn : {"checkWCAGCompliance", "getNormalTextLevel", "getLargeTextLevel"},
               ratio : GradeRatios]
  /\ InitState

NextGrade ==
  \/ CheckWCAGCompliance
  \/ GetNormalTextLevel
  \/ GetLargeTextLevel

SpecGrade == InitGrade /\ [][NextGrade]_vars

\* ratio >= k / 2 on the real numbers; NaN is at least nothing.
AtLeastHalves(ratio, k) == ratio[2] > 0 /\ 2 * ratio[1] >= k * ratio[2]

\* The level is AAA exactly with the flag aaa, AA exactly with aa and not
\* aaa, Fail exactly without aa.
GradeAgrees(level, aa, aaa) ==
  /\ level \in {"AAA", "AA", "Fail"}
  /\ level = "AAA" <=> aaa
  /\ level = "AA" <=> (aa /\ ~aaa)
  /\ level = "Fail" <=> ~aa

\* C14: for every ratio the grade of getNormalTextLevel agrees with the
\* flags normalTextAAA and normalTextAA of checkWCAGCompliance, the grade
\* of getLargeTextLevel with largeTextAAA and largeTextAA, and the flags are
\* ratio >= 7, ratio >= 4.5 (normal) and ratio >= 4.5, ratio >= 3 (large).
C14_GradesAgreeWithFlags ==
  (pc = "done" /\ call.fn \in {"checkWCAGCompliance", "getNormalTextLevel",
                                "getLargeTextLevel"}) =>
    LET flags == IF call.fn = "checkWCAGCompliance" THEN ret[1]
                 ELSE checkWCAGCompliance(call.ratio)
        normal == IF call.fn = "getNormalTextLevel" THEN ret[1]
                  ELSE getNormalTextLevel(call.ratio)
        large == IF call.fn = "getLargeTextLevel" THEN ret[1]
                 ELSE getLargeTextLevel(call.ratio)
    IN  /\ GradeAgrees(normal.level, flags.normalTextAA, flags.normalTextAAA)
        /\ GradeAgrees(large.level, flags.largeTextAA, flags.largeTextAAA)
        /\ flags.normalTextAAA <=> AtLeastHalves(call.ratio, 14)
        /\ flags.normalTextAA <=> AtLeastHalves(call.ratio, 9)
        /\ flags.largeTextAAA <=> AtLeastHalves(call.ratio, 9)
        /\ flags.largeTextAA <=> AtLeastHalves(call.ratio, 6)

\* At exactly 4.5 the normal-text grade is AA and the large-text one AAA.
C14_Witness ==
  /\ pc = "done"
  /\ call.fn = "getLargeTextLevel"
  /\ call.ratio = <<9, 2>>
  /\ ret[1].level = "AAA"
  /\ getNormalTextLevel(call.ratio).level = "AA"

\* The lightness at displacement i from that of colour, toward higher
\* lightness when lighter is TRUE, kept within 0..100.
DisplacedLightness(colour, lighter, i) ==
  IF lighter THEN RatMin(<<100, 1>>, RatAdd(rgbToHsl(colour).l, <<i, 1>>))
             ELSE RatMax(<<0, 1>>, RatSub(rgbToHsl(colour).l, <<i, 1>>))

\* The colour at the hue and saturation of colour and lightness l.
ColourAtLightness(colour, l) == hslToRgb([rgbToHsl(colour) EXCEPT !.l = l])

\* The displacements 0..100 in a direction at which the contrast against
\* the reference meets the target.
PassingDisplacements(colour, referenceColor, targetRatio, lighter) ==
  {i \in 0 .. 100 :
     RatGE(getContrastRatio(ColourAtLightness(colour, DisplacedLightness(colour, lighter, i)),
                            referenceColor),
           targetRatio)}

\* The reference colour's relative luminance is below 0.5.
ReferenceIsDark(referenceColor) == 2 * getRelativeLuminance(referenceColor) < LumScale

\* The least element of a non-empty set of numbers.
Least(S) == CHOOSE i \in S : \A j \in S : i <= j

\* C15: the primary direction is toward higher lightness when the relative
\* luminance of the reference is below 0.5 and toward lower lightness
\* otherwise; when a primary displacement passes, the result is the colour
\* at the least passing primary displacement, whatever passes in the
\* opposite direction; else it is the colour at the least passing opposite
\* displacement, and null when there is none.
C15_PrimaryDirectionFirst ==
  (pc = "done" /\ call.fn = "findPassingColor") =>
    LET lighter == ReferenceIsDark(call.referenceColor)
        primary == PassingDisplacements(call.colorToAdjust, call.referenceColor,
                                        call.targetRatio, lighter)
        opposite == PassingDisplacements(call.colorToAdjust, call.referenceColor,
                                         call.targetRatio, ~lighter)
    IN  IF primary # {}
          THEN ret = Some(ColourAtLightness(call.colorToAdjust,
                            DisplacedLightness(call.colorToAdjust, lighter, Least(primary))))
        ELSE IF opposite # {}
          THEN ret = Some(ColourAtLightness(call.colorToAdjust,
                            DisplacedLightness(call.colorToAdjust, ~lighter, Least(opposite))))
        ELSE ret = None

\* The result is at a primary displacement greater than 0 although a
\* smaller displacement passes in the opposite direction.
C15_Witness ==
  /\ pc = "done"
  /\ call.fn = "findPassingColor"
  /\ LET lighter == ReferenceIsDark(call.referenceColor)
         primary == PassingDisplacements(call.colorToAdjust, call.referenceColor,
                                         call.targetRatio, lighter)
         opposite == PassingDisplacements(call.colorToAdjust, call.referenceColor,
                                          call.targetRatio, ~lighter)
     IN  /\ primary # {}
         /\ opposite # {}
         /\ Least(opposite) < Least(primary)
         /\ ret = Some(ColourAtLightness(call.colorToAdjust,
                         DisplacedLightness(call.colorToAdjust, lighter, Least(primary))))
         /\ ret # Some(ColourAtLightness(call.colorToAdjust,
                         DisplacedLightness(call.colorToAdjust, ~lighter, Least(opposite))))

\* No primary displacement passes and the result is in the opposite direction.
C15_WitnessOpposite ==
  /\ pc = "done"
  /\ call.fn = "findPassingColor"
  /\ ret # None
  /\ PassingDisplacements(call.colorToAdjust, call.referenceColor, call.targetRatio,
                          ReferenceIsDark(call.referenceColor)) = {}

====
